---------------------------- MODULE Spec2Model ----------------------------
(* A model of the chained hash table of src/src/map.c.                     *)
(*                                                                         *)
(* Key and value pointers are small integers, 0 being NULL.  A bucket's    *)
(* chain of MapEntry structs is the sequence of its entries from the head  *)
(* on, and buckets is the array of chains, indexed from 0 as in C.  Every  *)
(* function of map.c is an operator from the table before the call to the  *)
(* table after it, its return value and the calls it made to the release   *)
(* functions.  The caller is at pc = "idle" between calls; a call applies  *)
(* one function to the table, leaves the call in last and the table as it  *)
(* was in before, and Return hands the result over.                        *)
(* puts and owed keep, for the life of a table, what the caller has put   *)
(* and what the table still has to release.                                *)
EXTENDS Integers, Sequences, FiniteSets, TLC

(* ------------------------------ bounds ------------------------------- *)
MaxKeyPtr == 4
MaxValue == 2
MaxCapacity == 3

NULL == 0

KeyPtrs == 1..MaxKeyPtr
Keys == {NULL} \cup KeyPtrs
Values == 0..MaxValue
Capacities == 0..MaxCapacity

(* ---------------------- the caller's keys ---------------------------- *)
(* The string a key pointer points to.  The caller has three different    *)
(* one-character strings, "1", "2" and "3"; pointers 1, 2 and 3 point to  *)
(* them and every later pointer to another copy of one of them (pointer 4 *)
(* to a second "1").                                                       *)
KeyContent(p) == <<((p - 1) % 3) + 1>>

(* --------------------- hash, compare, release ------------------------ *)
(* djb2.  size_t arithmetic wraps at 2^64; the strings of KeyContent have *)
(* one character, so no hash here comes near it (nor does size).          *)
RECURSIVE Djb2(_, _)
Djb2(str, hash) ==
    IF str = <<>> THEN hash
    ELSE Djb2(Tail(str), hash * 33 + Head(str))

stringHash(key) == Djb2(KeyContent(key), 5381)

(* A caller-supplied hash that sends every key to the same bucket: it is  *)
(* consistent with every compare function.                                 *)
constHash(key) == 7

ApplyHash(fn, key) == IF fn = "stringHash" THEN stringHash(key) ELSE constHash(key)

RECURSIVE StrCmp(_, _)
StrCmp(s1, s2) ==
    IF s1 = <<>> /\ s2 = <<>> THEN 0
    ELSE IF s1 = <<>> THEN -1
    ELSE IF s2 = <<>> THEN 1
    ELSE IF Head(s1) # Head(s2) THEN Head(s1) - Head(s2)
    ELSE StrCmp(Tail(s1), Tail(s2))

stringCompare(key1, key2) == StrCmp(KeyContent(key1), KeyContent(key2))

(* The function pointers a caller hands to mapCreate: mapCreateStringMap  *)
(* passes djb2 and free, a caller like basic.c passes a hash of its own   *)
(* and NULL for both release functions.                                    *)
NullFn == "NULL"
CreateArgs == {[hash |-> "stringHash", free |-> "free"],
               [hash |-> "constHash", free |-> NullFn]}

(* ------------------------------ the table ---------------------------- *)
MapEntry(key, value) == [key |-> key, value |-> value]

Calloc(n) == [i \in 0..(n - 1) |-> <<>>]

(* The struct Map behind a NULL reference: nothing is ever read from it.  *)
NoMap == [buckets |-> Calloc(0), capacity |-> 0, size |-> 0, hash |-> "none",
          compare |-> "none", freeKey |-> "none", freeValue |-> "none"]

VARIABLES mapRef, map, pc, last, before, puts, owed

vars == <<mapRef, map, pc, last, before, puts, owed>>

(* The table: the caller's Map* and the struct it points to. *)
Table(ref, m) == [ref |-> ref, map |-> m]

NoTable == Table(NULL, NoMap)

Now == Table(mapRef, map)

(* What a call gives the model: the table after it, the return value and  *)
(* the release calls it made, in order.                                    *)
Result(t, ret, freed) == [t |-> t, ret |-> ret, freed |-> freed]

FreeKeyCall(t, key) == <<[fn |-> t.map.freeKey, arg |-> "key", ptr |-> key]>>
FreeValueCall(t, value) == <<[fn |-> t.map.freeValue, arg |-> "value", ptr |-> value]>>

(* mapCreate without the check of initialCapacity against 0. *)
mapCreate_ZeroCapacity(initialCapacity, hash, freeKey, freeValue, allocMap, allocBuckets) ==
    IF ~allocMap THEN Result(NoTable, NULL, <<>>)
    ELSE IF ~allocBuckets THEN Result(NoTable, NULL, <<>>)
    ELSE Result(Table(1,
                      [buckets |-> Calloc(initialCapacity),
                       capacity |-> initialCapacity,
                       size |-> 0,
                       hash |-> hash,
                       compare |-> "stringCompare",
                       freeKey |-> IF freeKey # NullFn THEN freeKey ELSE "noFree",
                       freeValue |-> IF freeValue # NullFn THEN freeValue ELSE "noFree"]),
                1, <<>>)

(* ----------------------------- mapCreate ----------------------------- *)
mapCreate(initialCapacity, hash, freeKey, freeValue, allocMap, allocBuckets) ==
    IF initialCapacity = 0 THEN Result(NoTable, NULL, <<>>)
    ELSE IF ~allocMap THEN Result(NoTable, NULL, <<>>)
    ELSE IF ~allocBuckets THEN Result(NoTable, NULL, <<>>)
    ELSE Result(Table(1,
                      [buckets |-> Calloc(initialCapacity),
                       capacity |-> initialCapacity,
                       size |-> 0,
                       hash |-> hash,
                       compare |-> "stringCompare",
                       freeKey |-> IF freeKey # NullFn THEN freeKey ELSE "noFree",
                       freeValue |-> IF freeValue # NullFn THEN freeValue ELSE "noFree"]),
                1, <<>>)

(* ------------------------- walking a chain --------------------------- *)
(* The position, from i on, of the first entry of chain whose key         *)
(* compares equal to key, or NULL: the while loops of mapPut, mapGet and  *)
(* mapRemove.                                                              *)
RECURSIVE FindEntry(_, _, _)
FindEntry(chain, i, key) ==
    IF i > Len(chain) THEN NULL
    ELSE IF stringCompare(chain[i].key, key) = 0 THEN i
    ELSE FindEntry(chain, i + 1, key)

BucketIndex(t, key) == ApplyHash(t.map.hash, key) % t.map.capacity

(* ------------------------ mapPut gone wrong -------------------------- *)
(* mapPut without the scan of the chain: every put links a new entry. *)
mapPut_NoScan(t, key, value, allocOK) ==
    IF t.ref = NULL \/ key = NULL THEN Result(t, FALSE, <<>>)
    ELSE
      LET index == BucketIndex(t, key)
          chain == t.map.buckets[index]
      IN  IF ~allocOK THEN Result(t, FALSE, <<>>)
          ELSE Result([t EXCEPT !.map.buckets[index] = <<MapEntry(key, value)>> \o chain,
                                !.map.size = t.map.size + 1],
                      TRUE, <<>>)

(* mapPut that releases the old value of a matching entry but never      *)
(* stores the new one.                                                    *)
mapPut_KeepOldValue(t, key, value, allocOK) ==
    IF t.ref = NULL \/ key = NULL THEN Result(t, FALSE, <<>>)
    ELSE
      LET index == BucketIndex(t, key)
          chain == t.map.buckets[index]
          entry == FindEntry(chain, 1, key)
      IN  IF entry # NULL
          THEN Result(t, TRUE, FreeValueCall(t, chain[entry].value))
          ELSE IF ~allocOK THEN Result(t, FALSE, <<>>)
          ELSE Result([t EXCEPT !.map.buckets[index] = <<MapEntry(key, value)>> \o chain,
                                !.map.size = t.map.size + 1],
                      TRUE, <<>>)

(* mapPut that makes a matching entry adopt the argument key, releasing  *)
(* the key it held.                                                       *)
mapPut_AdoptKey(t, key, value, allocOK) ==
    IF t.ref = NULL \/ key = NULL THEN Result(t, FALSE, <<>>)
    ELSE
      LET index == BucketIndex(t, key)
          chain == t.map.buckets[index]
          entry == FindEntry(chain, 1, key)
      IN  IF entry # NULL
          THEN Result([t EXCEPT !.map.buckets[index][entry] = MapEntry(key, value)],
                      TRUE,
                      FreeKeyCall(t, chain[entry].key) \o FreeValueCall(t, chain[entry].value))
          ELSE IF ~allocOK THEN Result(t, FALSE, <<>>)
          ELSE Result([t EXCEPT !.map.buckets[index] = <<MapEntry(key, value)>> \o chain,
                                !.map.size = t.map.size + 1],
                      TRUE, <<>>)

(* mapPut that counts the new entry before it has allocated it. *)
mapPut_CountBeforeAlloc(t, key, value, allocOK) ==
    IF t.ref = NULL \/ key = NULL THEN Result(t, FALSE, <<>>)
    ELSE
      LET index == BucketIndex(t, key)
          chain == t.map.buckets[index]
          entry == FindEntry(chain, 1, key)
      IN  IF entry # NULL
          THEN Result([t EXCEPT !.map.buckets[index][entry].value = value],
                      TRUE, FreeValueCall(t, chain[entry].value))
          ELSE IF ~allocOK THEN Result([t EXCEPT !.map.size = t.map.size + 1], FALSE, <<>>)
          ELSE Result([t EXCEPT !.map.buckets[index] = <<MapEntry(key, value)>> \o chain,
                                !.map.size = t.map.size + 1],
                      TRUE, <<>>)

(* mapPut without the check of the key against NULL. *)
mapPut_NoNullCheck(t, key, value, allocOK) ==
    IF t.ref = NULL THEN Result(t, FALSE, <<>>)
    ELSE
      LET index == BucketIndex(t, key)
          chain == t.map.buckets[index]
          entry == FindEntry(chain, 1, key)
      IN  IF entry # NULL
          THEN Result([t EXCEPT !.map.buckets[index][entry].value = value],
                      TRUE, FreeValueCall(t, chain[entry].value))
          ELSE IF ~allocOK THEN Result(t, FALSE, <<>>)
          ELSE Result([t EXCEPT !.map.buckets[index] = <<MapEntry(key, value)>> \o chain,
                                !.map.size = t.map.size + 1],
                      TRUE, <<>>)

(* mapPut that doubles the bucket array once size has passed capacity. *)
mapPut_AutoGrow(t, key, value, allocOK) ==
    IF t.ref = NULL \/ key = NULL THEN Result(t, FALSE, <<>>)
    ELSE
      LET index == BucketIndex(t, key)
          chain == t.map.buckets[index]
          entry == FindEntry(chain, 1, key)
          linked == [t EXCEPT !.map.buckets[index] = <<MapEntry(key, value)>> \o chain,
                              !.map.size = t.map.size + 1]
      IN  IF entry # NULL
          THEN Result([t EXCEPT !.map.buckets[index][entry].value = value],
                      TRUE, FreeValueCall(t, chain[entry].value))
          ELSE IF ~allocOK THEN Result(t, FALSE, <<>>)
          ELSE IF linked.map.size > linked.map.capacity
          THEN Result([linked EXCEPT !.map.buckets = [i \in 0..(2 * t.map.capacity - 1) |->
                                                        IF i < t.map.capacity
                                                        THEN linked.map.buckets[i] ELSE <<>>],
                                     !.map.capacity = 2 * t.map.capacity],
                      TRUE, <<>>)
          ELSE Result(linked, TRUE, <<>>)

(* mapPut that looks for the key pointer itself instead of calling      *)
(* compare.                                                               *)
RECURSIVE FindSamePointer(_, _, _)
FindSamePointer(chain, i, key) ==
    IF i > Len(chain) THEN NULL
    ELSE IF chain[i].key = key THEN i
    ELSE FindSamePointer(chain, i + 1, key)

mapPut_PointerCompare(t, key, value, allocOK) ==
    IF t.ref = NULL \/ key = NULL THEN Result(t, FALSE, <<>>)
    ELSE
      LET index == BucketIndex(t, key)
          chain == t.map.buckets[index]
          entry == FindSamePointer(chain, 1, key)
      IN  IF entry # NULL
          THEN Result([t EXCEPT !.map.buckets[index][entry].value = value],
                      TRUE, FreeValueCall(t, chain[entry].value))
          ELSE IF ~allocOK THEN Result(t, FALSE, <<>>)
          ELSE Result([t EXCEPT !.map.buckets[index] = <<MapEntry(key, value)>> \o chain,
                                !.map.size = t.map.size + 1],
                      TRUE, <<>>)

(* ------------------------------ mapPut ------------------------------- *)
mapPut(t, key, value, allocOK) ==
    IF t.ref = NULL \/ key = NULL THEN Result(t, FALSE, <<>>)
    ELSE
      LET index == BucketIndex(t, key)
          chain == t.map.buckets[index]
          entry == FindEntry(chain, 1, key)
      IN  IF entry # NULL
          THEN Result([t EXCEPT !.map.buckets[index][entry].value = value],
                      TRUE, FreeValueCall(t, chain[entry].value))
          ELSE IF ~allocOK THEN Result(t, FALSE, <<>>)
          ELSE Result([t EXCEPT !.map.buckets[index] = <<MapEntry(key, value)>> \o chain,
                                !.map.size = t.map.size + 1],
                      TRUE, <<>>)

(* ------------------------------ mapGet ------------------------------- *)
mapGet(t, key) ==
    IF t.ref = NULL \/ key = NULL THEN NULL
    ELSE
      LET chain == t.map.buckets[BucketIndex(t, key)]
          entry == FindEntry(chain, 1, key)
      IN  IF entry # NULL THEN chain[entry].value ELSE NULL

mapContains(t, key) == mapGet(t, key) # NULL

(* mapSize that answers a NULL table with an error value. *)
mapSize_ErrorOnNull(t) == IF t.ref # NULL THEN t.map.size ELSE -1

mapSize(t) == IF t.ref # NULL THEN t.map.size ELSE 0

(* ----------------------------- mapRemove ----------------------------- *)
(* The chain with the entry at position entry unlinked: the head moves to *)
(* its successor, or its predecessor is linked to its successor.          *)
(* Unlinking that ends the chain at the predecessor (prev->next = NULL). *)
Unlink_TruncateAtPrev(chain, entry) ==
    IF entry = 1 THEN Tail(chain)
    ELSE SubSeq(chain, 1, entry - 1)

Unlink(chain, entry) ==
    IF entry = 1 THEN Tail(chain)
    ELSE SubSeq(chain, 1, entry - 1) \o SubSeq(chain, entry + 1, Len(chain))

(* mapRemove that releases the entry it finds and counts it out, but     *)
(* leaves it linked in its chain.                                         *)
mapRemove_KeepLinked(t, key) ==
    IF t.ref = NULL \/ key = NULL THEN Result(t, FALSE, <<>>)
    ELSE
      LET index == BucketIndex(t, key)
          chain == t.map.buckets[index]
          entry == FindEntry(chain, 1, key)
      IN  IF entry # NULL
          THEN Result([t EXCEPT !.map.size = t.map.size - 1],
                      TRUE,
                      FreeKeyCall(t, chain[entry].key) \o FreeValueCall(t, chain[entry].value))
          ELSE Result(t, FALSE, <<>>)

(* mapRemove that forgets to count the entry out. *)
mapRemove_NoCount(t, key) ==
    IF t.ref = NULL \/ key = NULL THEN Result(t, FALSE, <<>>)
    ELSE
      LET index == BucketIndex(t, key)
          chain == t.map.buckets[index]
          entry == FindEntry(chain, 1, key)
      IN  IF entry # NULL
          THEN Result([t EXCEPT !.map.buckets[index] = Unlink(chain, entry)],
                      TRUE,
                      FreeKeyCall(t, chain[entry].key) \o FreeValueCall(t, chain[entry].value))
          ELSE Result(t, FALSE, <<>>)

mapRemove(t, key) ==
    IF t.ref = NULL \/ key = NULL THEN Result(t, FALSE, <<>>)
    ELSE
      LET index == BucketIndex(t, key)
          chain == t.map.buckets[index]
          entry == FindEntry(chain, 1, key)
      IN  IF entry # NULL
          THEN Result([t EXCEPT !.map.buckets[index] = Unlink(chain, entry),
                                !.map.size = t.map.size - 1],
                      TRUE,
                      FreeKeyCall(t, chain[entry].key) \o FreeValueCall(t, chain[entry].value))
          ELSE Result(t, FALSE, <<>>)

(* ------------------------------ mapClear ----------------------------- *)
(* The release calls of the inner while loop of mapClear, from position i *)
(* of the chain on.                                                        *)
RECURSIVE ClearChain(_, _, _)
ClearChain(t, chain, i) ==
    IF i > Len(chain) THEN <<>>
    ELSE FreeKeyCall(t, chain[i].key) \o FreeValueCall(t, chain[i].value)
         \o ClearChain(t, chain, i + 1)

(* The for loop of mapClear from bucket i on. *)
RECURSIVE ClearBuckets(_, _)
ClearBuckets(r, i) ==
    IF i >= r.t.map.capacity THEN r
    ELSE ClearBuckets(Result([r.t EXCEPT !.map.buckets[i] = <<>>], r.ret,
                             r.freed \o ClearChain(r.t, r.t.map.buckets[i], 1)),
                      i + 1)

(* mapClear that releases every entry and resets size, but leaves the    *)
(* bucket slots pointing at the chains.                                   *)
mapClear_KeepBuckets(t) ==
    IF t.ref = NULL THEN Result(t, "void", <<>>)
    ELSE Result([t EXCEPT !.map.size = 0], "void", ClearBuckets(Result(t, "void", <<>>), 0).freed)

mapClear(t) ==
    IF t.ref = NULL THEN Result(t, "void", <<>>)
    ELSE LET r == ClearBuckets(Result(t, "void", <<>>), 0)
         IN  [r EXCEPT !.t.map.size = 0]

(* ----------------------------- mapResize ----------------------------- *)
(* The inner while loop of mapResize: links the entries of chain, from    *)
(* position i on, at the head of their new buckets.                        *)
RECURSIVE RehashChain(_, _, _, _, _)
RehashChain(newBuckets, hash, newCapacity, chain, i) ==
    IF i > Len(chain) THEN newBuckets
    ELSE LET newIndex == ApplyHash(hash, chain[i].key) % newCapacity
         IN  RehashChain([newBuckets EXCEPT ![newIndex] = <<chain[i]>> \o newBuckets[newIndex]],
                         hash, newCapacity, chain, i + 1)

(* The for loop of mapResize from old bucket i on. *)
RECURSIVE RehashBuckets(_, _, _, _)
RehashBuckets(newBuckets, m, newCapacity, i) ==
    IF i >= m.capacity THEN newBuckets
    ELSE RehashBuckets(RehashChain(newBuckets, m.hash, newCapacity, m.buckets[i], 1),
                       m, newCapacity, i + 1)

(* mapResize that copies the chain heads into the new array slot by slot *)
(* instead of rehashing the entries.                                      *)
mapResize_NoRehash(t, newCapacity, allocOK) ==
    IF t.ref = NULL \/ newCapacity = 0 \/ newCapacity < t.map.size THEN Result(t, FALSE, <<>>)
    ELSE IF ~allocOK THEN Result(t, FALSE, <<>>)
    ELSE Result([t EXCEPT !.map.buckets = [i \in 0..(newCapacity - 1) |->
                                             IF i < t.map.capacity THEN t.map.buckets[i]
                                             ELSE <<>>],
                          !.map.capacity = newCapacity],
                TRUE, <<>>)

(* mapResize without the check of newCapacity against size. *)
mapResize_NoSizeCheck(t, newCapacity, allocOK) ==
    IF t.ref = NULL \/ newCapacity = 0 THEN Result(t, FALSE, <<>>)
    ELSE IF ~allocOK THEN Result(t, FALSE, <<>>)
    ELSE Result([t EXCEPT !.map.buckets = RehashBuckets(Calloc(newCapacity), t.map,
                                                        newCapacity, 0),
                          !.map.capacity = newCapacity],
                TRUE, <<>>)

(* mapResize that releases the keys and values of the entries it moves. *)
mapResize_ReleasesEntries(t, newCapacity, allocOK) ==
    IF t.ref = NULL \/ newCapacity = 0 \/ newCapacity < t.map.size THEN Result(t, FALSE, <<>>)
    ELSE IF ~allocOK THEN Result(t, FALSE, <<>>)
    ELSE Result([t EXCEPT !.map.buckets = RehashBuckets(Calloc(newCapacity), t.map,
                                                        newCapacity, 0),
                          !.map.capacity = newCapacity],
                TRUE, mapClear(t).freed)

mapResize(t, newCapacity, allocOK) ==
    IF t.ref = NULL \/ newCapacity = 0 \/ newCapacity < t.map.size THEN Result(t, FALSE, <<>>)
    ELSE IF ~allocOK THEN Result(t, FALSE, <<>>)
    ELSE Result([t EXCEPT !.map.buckets = RehashBuckets(Calloc(newCapacity), t.map,
                                                        newCapacity, 0),
                          !.map.capacity = newCapacity],
                TRUE, <<>>)

(* ----------------------------- mapDestroy ---------------------------- *)
(* mapDestroy that frees the bucket array and the struct without         *)
(* clearing the table first.                                              *)
mapDestroy_NoClear(t) ==
    IF t.ref = NULL THEN Result(t, "void", <<>>)
    ELSE Result(NoTable, "void", <<>>)

mapDestroy(t) ==
    IF t.ref = NULL THEN Result(t, "void", <<>>)
    ELSE Result(NoTable, "void", mapClear(t).freed)

(* ------------------------------ the caller --------------------------- *)
(* The record of a call: the function, its arguments (NULL where it has   *)
(* none), whether the allocator was willing, the return value and the     *)
(* release calls made.                                                     *)
Call(op, key, value, cap, allocOK, r) ==
    [op |-> op, key |-> key, value |-> value, cap |-> cap, allocOK |-> allocOK,
     ret |-> r.ret, freed |-> r.freed]

NoCall == Call("none", NULL, NULL, 0, TRUE, Result(NoTable, "void", <<>>))

(* The mark of a key that no put has named: no pointer has this value. *)
NotPut == NULL - 1
NoPuts == [only |-> FALSE, recent |-> [p \in KeyPtrs |-> NotPut]]

(* puts.only: every call since the successful mapCreate was a mapPut that *)
(* returned true (queries aside); puts.recent[p] is then the value of the *)
(* most recent of them whose key compares equal to p.                      *)
PutsAfterPut(key, value, ret) ==
    IF puts.only /\ ret = TRUE
    THEN [puts EXCEPT !.recent = [p \in KeyPtrs |->
                                    IF stringCompare(p, key) = 0 THEN value ELSE puts.recent[p]]]
    ELSE NoPuts

(* owed.keys[p] and owed.values[v]: how many times, since mapCreate, the  *)
(* pointer was stored in an entry (the key and the value of a new entry,  *)
(* the value a matching entry is given) less how many times it was passed *)
(* to its release function.                                                *)
NoOwed == [keys |-> [p \in KeyPtrs |-> 0], values |-> [v \in Values |-> 0]]

CountCalls(freed, arg, ptr) ==
    Cardinality({i \in DOMAIN freed : freed[i].arg = arg /\ freed[i].ptr = ptr})

StoredKey(call, p) ==
    IF /\ call.op = "mapPut"
       /\ call.ret = TRUE
       /\ call.key = p
       /\ FindEntry(map.buckets[BucketIndex(Now, p)], 1, p) = NULL
    THEN 1 ELSE 0

StoredValue(call, v) ==
    IF call.op = "mapPut" /\ call.ret = TRUE /\ call.value = v THEN 1 ELSE 0

OwedAfter(call) ==
    IF call.op = "mapCreate" THEN NoOwed
    ELSE [keys |-> [p \in KeyPtrs |->
                      owed.keys[p] + StoredKey(call, p) - CountCalls(call.freed, "key", p)],
          values |-> [v \in Values |->
                      owed.values[v] + StoredValue(call, v) - CountCalls(call.freed, "value", v)]]

Apply(r, call, newPuts) ==
    /\ pc = "idle"
    /\ pc' = "returned"
    /\ mapRef' = r.t.ref
    /\ map' = r.t.map
    /\ last' = call
    /\ before' = Now
    /\ puts' = newPuts
    /\ owed' = OwedAfter(call)

Init ==
    /\ mapRef = NULL
    /\ map = NoMap
    /\ pc = "idle"
    /\ last = NoCall
    /\ before = NoTable
    /\ puts = NoPuts
    /\ owed = NoOwed

Create ==
    /\ mapRef = NULL
    /\ \E initialCapacity \in Capacities, fns \in CreateArgs,
          allocMap \in BOOLEAN, allocBuckets \in BOOLEAN :
         LET r == mapCreate(initialCapacity, fns.hash, fns.free, fns.free,
                            allocMap, allocBuckets)
         IN  Apply(r, Call("mapCreate", NULL, NULL, initialCapacity,
                           allocMap /\ allocBuckets, r),
                   [NoPuts EXCEPT !.only = (r.ret # NULL)])

Put ==
    \E key \in Keys, value \in Values, allocOK \in BOOLEAN :
        LET r == mapPut(Now, key, value, allocOK)
        IN  Apply(r, Call("mapPut", key, value, 0, allocOK, r),
                  PutsAfterPut(key, value, r.ret))

Get ==
    \E key \in Keys :
        LET r == Result(Now, mapGet(Now, key), <<>>)
        IN  Apply(r, Call("mapGet", key, NULL, 0, TRUE, r), puts)

Contains ==
    \E key \in Keys :
        LET r == Result(Now, mapContains(Now, key), <<>>)
        IN  Apply(r, Call("mapContains", key, NULL, 0, TRUE, r), puts)

Size ==
    LET r == Result(Now, mapSize(Now), <<>>)
    IN  Apply(r, Call("mapSize", NULL, NULL, 0, TRUE, r), puts)

Remove ==
    \E key \in Keys :
        LET r == mapRemove(Now, key)
        IN  Apply(r, Call("mapRemove", key, NULL, 0, TRUE, r), NoPuts)

Clear ==
    LET r == mapClear(Now)
    IN  Apply(r, Call("mapClear", NULL, NULL, 0, TRUE, r), NoPuts)

Resize ==
    \E newCapacity \in Capacities, allocOK \in BOOLEAN :
        LET r == mapResize(Now, newCapacity, allocOK)
        IN  Apply(r, Call("mapResize", NULL, NULL, newCapacity, allocOK, r), NoPuts)

Destroy ==
    LET r == mapDestroy(Now)
    IN  Apply(r, Call("mapDestroy", NULL, NULL, 0, TRUE, r), NoPuts)

(* The caller takes the result; the next call starts from the table alone. *)
Return ==
    /\ pc = "returned"
    /\ pc' = "idle"
    /\ last' = NoCall
    /\ before' = NoTable
    /\ UNCHANGED <<mapRef, map, puts, owed>>

Next ==
    \/ Create
    \/ Put
    \/ Get
    \/ Contains
    \/ Size
    \/ Remove
    \/ Clear
    \/ Resize
    \/ Destroy
    \/ Return

Spec == Init /\ [][Next]_vars

(* --------------------------- reading a table ------------------------- *)
(* The entries of a table, each named by its bucket and its position in   *)
(* the chain.                                                              *)
Entries(t) == UNION {{<<i, j>> : j \in DOMAIN t.map.buckets[i]} : i \in DOMAIN t.map.buckets}

EntryAt(t, e) == t.map.buckets[e[1]][e[2]]

TypeOK ==
    /\ mapRef \in {NULL, 1}
    /\ pc \in {"idle", "returned"}
    /\ map.capacity \in Capacities
    /\ DOMAIN map.buckets = 0..(map.capacity - 1)
    /\ \A e \in Entries(Now) : EntryAt(Now, e).key \in KeyPtrs /\ EntryAt(Now, e).value \in Values


(* The entries of t whose key compares equal to key. *)
Holders(t, key) == {e \in Entries(t) : stringCompare(EntryAt(t, e).key, key) = 0}

(* The keys put since mapCreate, and the classes of equal keys among them. *)
KeysPut == {p \in KeyPtrs : puts.recent[p] # NotPut}
DistinctKeysPut == {{q \in KeyPtrs : stringCompare(p, q) = 0} : p \in KeysPut}

(* What the while loop of mapPut, mapGet or mapRemove finds for key in t. *)
Found(t, key) == FindEntry(t.map.buckets[BucketIndex(t, key)], 1, key)

(* ------------------------------- claims ------------------------------ *)

(* C1: after any sequence of successful mapPut calls with non-null keys   *)
(* on a freshly created table, mapGet(k) is the value of the most recent  *)
(* put of every key k put, exactly one entry holds each such key, and     *)
(* mapSize is the number of distinct keys put.                             *)
C1_PutsLeaveOneEntryPerKey ==
    (mapRef # NULL /\ puts.only) =>
        /\ \A k \in KeysPut :
              /\ mapGet(Now, k) = puts.recent[k]
              /\ Cardinality(Holders(Now, k)) = 1
        /\ mapSize(Now) = Cardinality(DistinctKeysPut)

C1_Witness ==
    /\ puts.only
    /\ last.op = "mapPut"
    /\ last.freed # <<>>
    /\ Cardinality(DistinctKeysPut) = 3
    /\ \E i \in DOMAIN map.buckets : Len(map.buckets[i]) >= 2

(* C2: a successful mapPut(k, v) followed immediately by mapGet(k)        *)
(* returns v, in every reachable state.                                    *)
C2_PutThenGet ==
    (last.op = "mapPut" /\ last.ret = TRUE) => mapGet(Now, last.key) = last.value

C2_Witness ==
    /\ last.op = "mapPut"
    /\ last.ret = TRUE
    /\ ~puts.only
    /\ last.value # NULL
    /\ mapGet(before, last.key) \notin {NULL, last.value}
    /\ Found(Now, last.key) >= 2

(* C3: a mapResize(newCapacity) with newCapacity >= 1 and newCapacity >=  *)
(* mapSize whose allocation succeeds returns true, and mapGet(k) for      *)
(* every key k in the table and mapSize are as before the call.            *)
C3_ResizeKeepsContents ==
    (/\ last.op = "mapResize"
     /\ before.ref # NULL
     /\ last.cap >= 1
     /\ last.cap >= mapSize(before)
     /\ last.allocOK) =>
        /\ last.ret = TRUE
        /\ \A k \in KeyPtrs : Holders(before, k) # {} => mapGet(Now, k) = mapGet(before, k)
        /\ mapSize(Now) = mapSize(before)

C3_Witness ==
    /\ last.op = "mapResize"
    /\ last.ret = TRUE
    /\ last.cap < before.map.capacity
    /\ mapSize(before) >= 2
    /\ \E k \in KeyPtrs : mapGet(before, k) # NULL /\ BucketIndex(before, k) # BucketIndex(Now, k)

(* C4: mapResize(0) and mapResize(n) with n < mapSize return false and    *)
(* leave entries, bucket placement, size and capacity as they were.        *)
C4_ResizeRejected ==
    (/\ last.op = "mapResize"
     /\ before.ref # NULL
     /\ (last.cap = 0 \/ last.cap < mapSize(before))) =>
        /\ last.ret = FALSE
        /\ Now = before

C4_Witness ==
    /\ last.op = "mapResize"
    /\ before.ref # NULL
    /\ last.allocOK
    /\ last.cap >= 1
    /\ last.cap < mapSize(before)
    /\ last.ret = FALSE

(* C5: after mapClear mapSize is 0, mapContains(k) is false for every     *)
(* key, capacity is as before, and a following mapPut(k, v) returns true  *)
(* with mapGet(k) returning v.                                             *)
C5_ClearResets ==
    (last.op = "mapClear" /\ before.ref # NULL) =>
        /\ mapSize(Now) = 0
        /\ \A k \in KeyPtrs : ~mapContains(Now, k)
        /\ map.capacity = before.map.capacity
        /\ \A k \in KeyPtrs, v \in Values :
              LET r == mapPut(Now, k, v, TRUE)
              IN  r.ret = TRUE /\ mapGet(r.t, k) = v

C5_Witness ==
    /\ last.op = "mapClear"
    /\ mapSize(before) >= 2
    /\ \E k \in KeyPtrs : mapContains(before, k)

(* C6: of mapRemove(k) followed immediately by mapRemove(k), k not NULL,  *)
(* the first returns true exactly when an entry held k before it, and the *)
(* second returns false.                                                   *)
C6_RemoveTwice ==
    (last.op = "mapRemove" /\ before.ref # NULL /\ last.key # NULL) =>
        /\ last.ret = (Holders(before, last.key) # {})
        /\ mapRemove(Now, last.key).ret = FALSE

C6_Witness ==
    /\ last.op = "mapRemove"
    /\ last.ret = TRUE
    /\ mapSize(Now) >= 1
    /\ Len(map.buckets[BucketIndex(Now, last.key)]) >= 1


(* C7: mapContains(k) returns true exactly when some entry of the table   *)
(* holds a key equal to k, whatever value mapPut stored with it, NULL     *)
(* included.                                                               *)
C7_ContainsIffEntry ==
    (last.op = "mapContains" /\ before.ref # NULL /\ last.key # NULL) =>
        last.ret = (Holders(Now, last.key) # {})

(* C8: a mapPut(k, v) that finds an entry with a key equal to k returns   *)
(* true, makes no entry, leaves size, capacity and every other entry as   *)
(* they were, keeps the entry's key, stores v, and makes one release      *)
(* call: the value release function on the old value.                      *)
C8_OverwriteInPlace ==
    (/\ last.op = "mapPut"
     /\ before.ref # NULL
     /\ last.key # NULL
     /\ Found(before, last.key) # NULL) =>
        LET e == <<BucketIndex(before, last.key), Found(before, last.key)>>
        IN  /\ last.ret = TRUE
            /\ Entries(Now) = Entries(before)
            /\ map.size = before.map.size
            /\ map.capacity = before.map.capacity
            /\ \A o \in Entries(before) \ {e} : EntryAt(Now, o) = EntryAt(before, o)
            /\ EntryAt(Now, e) = MapEntry(EntryAt(before, e).key, last.value)
            /\ last.freed = <<[fn |-> before.map.freeValue, arg |-> "value",
                               ptr |-> EntryAt(before, e).value]>>

C8_Witness ==
    /\ last.op = "mapPut"
    /\ before.ref # NULL
    /\ last.key # NULL
    /\ Found(before, last.key) >= 2
    /\ before.map.buckets[BucketIndex(before, last.key)][Found(before, last.key)].key # last.key
    /\ mapGet(before, last.key) # NULL
    /\ last.value \notin {NULL, mapGet(before, last.key)}
    /\ ~last.allocOK

(* C9: when the allocation in mapPut or mapResize fails the call returns  *)
(* false, the table is as it was and no release function is called; when  *)
(* an allocation in mapCreate fails there is no table.                     *)
C9_AllocationFailure ==
    /\ (/\ last.op = "mapPut"
        /\ before.ref # NULL
        /\ last.key # NULL
        /\ Found(before, last.key) = NULL
        /\ ~last.allocOK) =>
           (last.ret = FALSE /\ Now = before /\ last.freed = <<>>)
    /\ (/\ last.op = "mapResize"
        /\ before.ref # NULL
        /\ last.cap >= 1
        /\ last.cap >= mapSize(before)
        /\ ~last.allocOK) =>
           (last.ret = FALSE /\ Now = before /\ last.freed = <<>>)
    /\ (last.op = "mapCreate" /\ ~last.allocOK) =>
           (last.ret = NULL /\ mapRef = NULL)

C9_Witness ==
    /\ last.op = "mapPut"
    /\ before.ref # NULL
    /\ last.key # NULL
    /\ Found(before, last.key) = NULL
    /\ ~last.allocOK
    /\ Len(before.map.buckets[BucketIndex(before, last.key)]) >= 1

(* C10: mapCreate with capacity 0 returns no table; mapPut and mapRemove  *)
(* with a NULL key return false and mapGet with a NULL key returns NULL,  *)
(* the table staying as it was; a mapCreate that returns a table leaves   *)
(* size 0, capacity as asked (at least 1) and every bucket empty.          *)
C10_InvalidArguments ==
    /\ (last.op = "mapCreate" /\ last.cap = 0) => (last.ret = NULL /\ mapRef = NULL)
    /\ (last.op \in {"mapPut", "mapRemove"} /\ last.key = NULL) =>
           (last.ret = FALSE /\ Now = before /\ last.freed = <<>>)
    /\ (last.op = "mapGet" /\ last.key = NULL) => (last.ret = NULL /\ Now = before)
    /\ (last.op = "mapCreate" /\ last.ret # NULL) =>
           /\ mapRef # NULL
           /\ last.cap >= 1
           /\ map.size = 0
           /\ map.capacity = last.cap
           /\ DOMAIN map.buckets = 0..(last.cap - 1)
           /\ \A i \in DOMAIN map.buckets : map.buckets[i] = <<>>

C10_Witness ==
    /\ last.op = "mapPut"
    /\ last.key = NULL
    /\ last.allocOK
    /\ before.ref # NULL
    /\ mapSize(before) >= 1


(* C11: capacity changes only through a mapResize that returns true:      *)
(* mapPut, mapGet, mapContains, mapRemove, mapSize and mapClear leave it  *)
(* as it was, mapPut however far size is beyond capacity, and so does a   *)
(* mapResize that returns false.                                           *)
C11_CapacityOnlyByResize ==
    /\ (/\ last.op \in {"mapPut", "mapGet", "mapContains", "mapRemove", "mapSize", "mapClear"}
        /\ before.ref # NULL) =>
           (mapRef = before.ref /\ map.capacity = before.map.capacity)
    /\ (last.op = "mapResize" /\ before.ref # NULL /\ last.ret = FALSE) =>
           map.capacity = before.map.capacity

C11_Witness ==
    /\ last.op = "mapPut"
    /\ last.ret = TRUE
    /\ map.size > before.map.size
    /\ before.map.size > before.map.capacity


(* The entries of t that hold the key pointer p, and the value pointer v. *)
HoldingKey(t, p) == {e \in Entries(t) : EntryAt(t, e).key = p}
HoldingValue(t, v) == {e \in Entries(t) : EntryAt(t, e).value = v}

C13_NullTable ==
    /\ (last.op = "mapSize" /\ before.ref = NULL) => last.ret = 0
    /\ (last.op = "mapDestroy" /\ before.ref = NULL) => (Now = before /\ last.freed = <<>>)

C13_Witness ==
    /\ last.op = "mapSize"
    /\ before.ref = NULL
    /\ last.ret = 0

(* C14: in every state of a live table, after calls that succeeded and    *)
(* calls that failed, size is the number of entries in the chains.         *)
C14_SizeCountsEntries ==
    mapRef # NULL => map.size = Cardinality(Entries(Now))

C14_Witness ==
    /\ last.op = "mapRemove"
    /\ last.ret = TRUE
    /\ map.size = 2
    /\ Cardinality(Entries(Now)) = 2

(* C15: every entry is in the bucket whose index is the hash of its key   *)
(* modulo capacity, after a mapResize that grew or shrank the table too.   *)
C15_EntryInItsBucket ==
    mapRef # NULL =>
        \A e \in Entries(Now) : e[1] = BucketIndex(Now, EntryAt(Now, e).key)

C15_Witness ==
    /\ last.op = "mapResize"
    /\ last.ret = TRUE
    /\ map.capacity > before.map.capacity
    /\ Cardinality({e[1] : e \in Entries(Now)}) > Cardinality({e[1] : e \in Entries(before)})

(* C16: no two entries of the table hold keys that compare equal.          *)
C16_KeysUnique ==
    mapRef # NULL =>
        \A e1 \in Entries(Now), e2 \in Entries(Now) :
            e1 # e2 => stringCompare(EntryAt(Now, e1).key, EntryAt(Now, e2).key) # 0

C16_Witness ==
    /\ last.op = "mapPut"
    /\ last.ret = TRUE
    /\ ~puts.only
    /\ map.size = before.map.size
    /\ map.capacity >= 2
    /\ \E e \in Holders(Now, last.key) : e[1] >= 1 /\ EntryAt(Now, e).key # last.key

(* C17: a live table has capacity >= 1, and right after a mapResize that  *)
(* returned true capacity >= size.                                         *)
C17_CapacityBounds ==
    /\ mapRef # NULL => map.capacity >= 1
    /\ (last.op = "mapResize" /\ last.ret = TRUE) => map.capacity >= map.size

C17_Witness ==
    /\ last.op = "mapResize"
    /\ last.ret = TRUE
    /\ map.capacity = map.size
    /\ map.capacity < before.map.capacity

(* C18: a mapRemove(k) that finds an entry returns true, takes 1 off size, *)
(* calls the key and the value release function once each, on that        *)
(* entry's key and value, leaves mapGet(k) not found and every other      *)
(* entry and mapGet(j) of every other key as before; one that finds none  *)
(* returns false, changes nothing and calls no release function.           *)
C18_RemoveOnlyTheEntry ==
    (last.op = "mapRemove" /\ before.ref # NULL /\ last.key # NULL) =>
        IF Found(before, last.key) # NULL
        THEN LET e == <<BucketIndex(before, last.key), Found(before, last.key)>>
                 removed == EntryAt(before, e)
             IN  /\ last.ret = TRUE
                 /\ map.size = before.map.size - 1
                 /\ map.capacity = before.map.capacity
                 /\ Len(last.freed) = 2
                 /\ CountCalls(last.freed, "key", removed.key) = 1
                 /\ CountCalls(last.freed, "value", removed.value) = 1
                 /\ mapGet(Now, last.key) = NULL
                 /\ Holders(Now, last.key) = {}
                 /\ Cardinality(Entries(Now)) = Cardinality(Entries(before)) - 1
                 /\ \A j \in KeyPtrs :
                       stringCompare(j, last.key) # 0 =>
                           /\ mapGet(Now, j) = mapGet(before, j)
                           /\ {EntryAt(Now, o) : o \in Holders(Now, j)}
                                = {EntryAt(before, o) : o \in Holders(before, j)}
        ELSE /\ last.ret = FALSE
             /\ Now = before
             /\ last.freed = <<>>

C18_Witness ==
    /\ last.op = "mapRemove"
    /\ before.ref # NULL
    /\ last.key # NULL
    /\ Found(before, last.key) = 2
    /\ Len(before.map.buckets[BucketIndex(before, last.key)]) = 3
    /\ last.ret = TRUE

(* C19: a mapResize that returns true calls no release function and       *)
(* leaves the same entries, with the same keys and values, and the same   *)
(* size.                                                                   *)
C19_ResizeMovesEntries ==
    (last.op = "mapResize" /\ last.ret = TRUE) =>
        /\ last.freed = <<>>
        /\ {EntryAt(Now, e) : e \in Entries(Now)} = {EntryAt(before, e) : e \in Entries(before)}
        /\ Cardinality(Entries(Now)) = Cardinality(Entries(before))
        /\ map.size = before.map.size

C19_Witness ==
    /\ last.op = "mapResize"
    /\ last.ret = TRUE
    /\ map.capacity = before.map.capacity
    /\ map.buckets # before.map.buckets
    /\ map.size = 3


(* C20: no live entry holds a key or value that has been passed to a      *)
(* release function, and no key or value is passed to its release         *)
(* function more than once; stated here of the pointers released by the   *)
(* call that has just returned (NULL, which names no object, aside), the  *)
(* puts of a value the table already holds included.                       *)
C20_NoReleasedPointerHeld ==
    /\ \A i \in DOMAIN last.freed :
          LET c == last.freed[i]
          IN  c.ptr # NULL =>
                 /\ c.arg = "key" => HoldingKey(Now, c.ptr) = {}
                 /\ c.arg = "value" => HoldingValue(Now, c.ptr) = {}
    /\ \A p \in KeyPtrs : CountCalls(last.freed, "key", p) <= 1
    /\ \A v \in Values \ {NULL} : CountCalls(last.freed, "value", v) <= 1

=============================================================================
